---- MODULE Spec2Model ----
(***************************************************************************)
(* Model of parse.py: the page-geometry lookups, the criteria parser, the  *)
(* category derivation and the module-level extraction run (page loop,     *)
(* concat, astype, to_json).                                               *)
(*                                                                         *)
(* Python strings are kept as TLA+ strings in the state; the string        *)
(* methods work on their sequence of characters (Chars / Str).             *)
(***************************************************************************)
EXTENDS Integers, Sequences, FiniteSets, TLC

VARIABLES
    fn_call,    \* SpecFn: the call under test, [fn, arg]
    fn_pc,      \* SpecFn: "call" before the function ran, "return" after
    fn_ret,     \* SpecFn: the returned value
    pdf,        \* Spec: the opened document
    pc,         \* Spec: position of the module-level script
    page_index, \* Spec: number of pages of the slice already iterated
    visited,    \* Spec: <<page_number, page>> pairs the loop has bound so far
    dfs,        \* Spec: the list of per-page data frames
    out         \* Spec: the content written by to_json, or NotWritten

vars == <<fn_call, fn_pc, fn_ret, pdf, pc, page_index, visited, dfs, out>>
fnVars == <<fn_call, fn_pc, fn_ret>>
runVars == <<pdf, pc, page_index, visited, dfs, out>>

-----------------------------------------------------------------------------
(* Bounds of the model.                                                    *)

MaxPage == 120          \* page numbers given to the geometry lookups
MaxCodeLen == 3         \* length of the codes given to get_category
MaxBullets == 2         \* bullets of the texts given to parse_criteria
DocPages == 101         \* pages of the opened document
MaxVariantPages == 1    \* consecutive pages whose table differs from the others
MaxVariantOffset == 1   \* distance of those pages from the start of a section

-----------------------------------------------------------------------------
(* Python str and list primitives.                                         *)

Chars(s) == [i \in 1..Len(s) |-> SubSeq(s, i, i)]

RECURSIVE Str(_)
Str(cs) == IF cs = <<>> THEN "" ELSE cs[1] \o Str(Tail(cs))

SetMin(S) == CHOOSE m \in S : \A n \in S : m <= n
SetMax(S) == CHOOSE m \in S : \A n \in S : m >= n

\* the characters str.strip() removes when called without argument
Whitespace == {" ", "\t", "\n", "\r", "\f"}

\* str.lstrip(chars) / str.rstrip(chars): chars is a SET of characters
LStripChars(cs, set) ==
    LET keep == {i \in 1..Len(cs) : cs[i] \notin set}
    IN  IF keep = {} THEN <<>> ELSE SubSeq(cs, SetMin(keep), Len(cs))

RStripChars(cs, set) ==
    LET keep == {i \in 1..Len(cs) : cs[i] \notin set}
    IN  IF keep = {} THEN <<>> ELSE SubSeq(cs, 1, SetMax(keep))

StripChars(cs, set) == RStripChars(LStripChars(cs, set), set)

\* str.startswith(prefix)
StartsWith(cs, prefix) ==
    /\ Len(cs) >= Len(prefix)
    /\ SubSeq(cs, 1, Len(prefix)) = prefix

\* positions where sep occurs in cs
Occurrences(cs, sep) ==
    {i \in 1..(Len(cs) - Len(sep) + 1) : SubSeq(cs, i, i + Len(sep) - 1) = sep}

\* str.split(sep): left-to-right, non-overlapping, empty fragments kept
RECURSIVE Split(_, _)
Split(cs, sep) ==
    LET occ == Occurrences(cs, sep)
    IN  IF occ = {} THEN <<cs>>
        ELSE LET i == SetMin(occ)
             IN  <<SubSeq(cs, 1, i - 1)>>
                     \o Split(SubSeq(cs, i + Len(sep), Len(cs)), sep)

\* str.split(sep, 1): <<before, after>> of the first occurrence
SplitOnce(cs, sep) ==
    LET i == SetMin(Occurrences(cs, sep))
    IN  <<SubSeq(cs, 1, i - 1), SubSeq(cs, i + Len(sep), Len(cs))>>

UpperLetters == Chars("ABCDEFGHIJKLMNOPQRSTUVWXYZ")
LowerLetters == Chars("abcdefghijklmnopqrstuvwxyz")

\* str.lower(), one character
LowerChar(c) ==
    IF \E i \in 1..Len(UpperLetters) : UpperLetters[i] = c
    THEN LowerLetters[CHOOSE i \in 1..Len(UpperLetters) : UpperLetters[i] = c]
    ELSE c

Lower(cs) == [i \in 1..Len(cs) |-> LowerChar(cs[i])]

\* str.replace(a, b) for single characters a, b
ReplaceChar(cs, a, b) == [i \in 1..Len(cs) |-> IF cs[i] = a THEN b ELSE cs[i]]

\* dict: d[key] = value
DictSet(d, key, value) ==
    [k \in DOMAIN d \cup {key} |-> IF k = key THEN value ELSE d[k]]

\* dict.setdefault(key, value)
DictSetDefault(d, key, value) ==
    IF key \in DOMAIN d THEN d ELSE DictSet(d, key, value)

\* dict.pop(key, None)
DictPop(d, key) == [k \in DOMAIN d \ {key} |-> d[k]]

EmptyDict == [k \in {} |-> ""]

-----------------------------------------------------------------------------
(* Module constants.                                                       *)

FIRST_FLEXIBILITY_PAGE == 26
FIRST_STRENGTH_PAGE == 54
FIRST_SPIN_STATIC_PAGE == 76
FIRST_SPIN_SPIN_PAGE == 84
LAST_SPIN_SPIN_PAGE == 100

FIRST_PAGE == FIRST_FLEXIBILITY_PAGE
FIRST_PAGE_INDEX == FIRST_FLEXIBILITY_PAGE - 1
LAST_PAGE_INDEX == LAST_SPIN_SPIN_PAGE

VERTICAL_LINES == <<35, 75, 175, 305, 350, 564>>

-----------------------------------------------------------------------------
(* get_crop_boundaries                                                     *)

Boundaries(l, t, r, b) == [left |-> l, top |-> t, right |-> r, bottom |-> b]

get_crop_boundaries_no_strength(page_number) ==
    LET boundaries == Boundaries(35, 45, 565, 775)
    IN  IF page_number = 26 THEN [boundaries EXCEPT !.top = 210]
        ELSE IF page_number \in {76, 84} THEN [boundaries EXCEPT !.top = 75]
        ELSE boundaries

get_crop_boundaries(page_number) ==
    LET boundaries == Boundaries(35, 45, 565, 775)
    IN  IF page_number = 26 THEN [boundaries EXCEPT !.top = 210]
        ELSE IF page_number \in {54, 76, 84} THEN [boundaries EXCEPT !.top = 75]
        ELSE boundaries

(* get_vertical_lines                                                      *)

get_vertical_lines(page_number) ==
    IF page_number \in {29, 30, 31, 32, 33} THEN <<35, 75, 170, 305, 345, 564>>
    ELSE IF page_number \in {69, 70, 83} THEN <<35, 75, 175, 305, 350, 560>>
    ELSE <<35, 75, 175, 305, 350, 565>>

-----------------------------------------------------------------------------
(* get_category                                                            *)

get_category_s_first(code) ==
    LET c == Chars(code)
    IN  IF StartsWith(c, Chars("S")) THEN "strength"
        ELSE IF StartsWith(c, Chars("SP")) THEN "spin"
        ELSE IF StartsWith(c, Chars("ST")) THEN "static"
        ELSE IF StartsWith(c, Chars("F")) THEN "flexibility"
        ELSE "unknown"

get_category(code) ==
    LET c == Chars(code)
    IN  IF StartsWith(c, Chars("SP")) THEN "spin"
        ELSE IF StartsWith(c, Chars("ST")) THEN "static"
        ELSE IF StartsWith(c, Chars("S")) THEN "strength"
        ELSE IF StartsWith(c, Chars("F")) THEN "flexibility"
        ELSE "unknown"

-----------------------------------------------------------------------------
(* parse_criteria                                                          *)

\* lines 60-61: the bullets, as character sequences
Bullets(text) ==
    LET bullets == Split(StripChars(Chars(text), Whitespace), Chars("\n- "))
    IN  [bullets EXCEPT ![1] = LStripChars(bullets[1], {"-", " "})]

\* line 66
CanonicalKey(cs) ==
    Str(ReplaceChar(Lower(StripChars(cs, Whitespace)), " ", "_"))

\* lines 63-68: the loop over the bullets, from bullet i on
RECURSIVE CollectBullets(_, _, _)
CollectBullets(bullets, i, data) ==
    IF i > Len(bullets) THEN data
    ELSE IF ":" \in {bullets[i][j] : j \in 1..Len(bullets[i])}
         THEN LET kv    == SplitOnce(bullets[i], <<":">>)
                  key   == CanonicalKey(kv[1])
                  value == Str(StripChars(kv[2], Whitespace))
              IN  CollectBullets(bullets, i + 1, DictSet(data, key, value))
         ELSE CollectBullets(bullets, i + 1, data)

\* lines 70-78, in the dict's iteration (insertion) order
bad_columns == <<
    <<"grip/arm_position", "arm_position/grip">>,
    <<"arm/position_grip", "arm_position/grip">>,
    <<"arm_position_/_grip", "arm_position/grip">>,
    <<"angle_of_the_split", "angle_of_split">>,
    <<"-_angle_of_split", "angle_of_split">>,
    <<"-_body_position", "body_position">>,
    <<"grip_is", "grip">> >>

\* lines 81-83, one alias: an overwriting variant and the code's
ReconcileOneOverwrite(data, bad_key, good_key) ==
    IF bad_key \in DOMAIN data
    THEN DictPop(DictSet(data, good_key, data[bad_key]), bad_key)
    ELSE data

ReconcileOne(data, bad_key, good_key) ==
    IF bad_key \in DOMAIN data
    THEN DictPop(DictSetDefault(data, good_key, data[bad_key]), bad_key)
    ELSE data

\* lines 80-83: the loop over the alias table, from entry i on
RECURSIVE Reconcile(_, _)
Reconcile(data, i) ==
    IF i > Len(bad_columns) THEN data
    ELSE Reconcile(ReconcileOne(data, bad_columns[i][1], bad_columns[i][2]), i + 1)

parse_criteria(text) ==
    Reconcile(CollectBullets(Bullets(text), 1, EmptyDict), 1)

-----------------------------------------------------------------------------
(* float(str), as DataFrame.astype applies it to the technicalValue        *)
(* strings: surrounding whitespace, a sign, decimal digits with at most    *)
(* one point, or inf / infinity / nan.  Exponents and digit-group          *)
(* underscores are not modelled; no cell of the documents below has them.  *)

DigitChars == Chars("0123456789")

IsDigit(c) == \E d \in 1..Len(DigitChars) : DigitChars[d] = c

DigitValue(c) == (CHOOSE d \in 1..Len(DigitChars) : DigitChars[d] = c) - 1

RECURSIVE DigitsToNat(_)
DigitsToNat(cs) ==
    IF cs = <<>> THEN 0
    ELSE DigitsToNat(SubSeq(cs, 1, Len(cs) - 1)) * 10 + DigitValue(cs[Len(cs)])

RECURSIVE Pow10(_)
Pow10(n) == IF n = 0 THEN 1 ELSE 10 * Pow10(n - 1)

\* the literal without surrounding whitespace and sign
Unsigned(s) ==
    LET cs == StripChars(Chars(s), Whitespace)
    IN  IF cs # <<>> /\ cs[1] \in {"+", "-"} THEN Tail(cs) ELSE cs

IsNegative(s) ==
    LET cs == StripChars(Chars(s), Whitespace)
    IN  cs # <<>> /\ cs[1] = "-"

IsSpecialFloat(cs) == Str(Lower(cs)) \in {"inf", "infinity", "nan"}

IsDecimal(cs) ==
    /\ \A i \in 1..Len(cs) : IsDigit(cs[i]) \/ cs[i] = "."
    /\ Cardinality({i \in 1..Len(cs) : cs[i] = "."}) <= 1
    /\ \E i \in 1..Len(cs) : IsDigit(cs[i])

\* a variant that lets the empty string through
IsFloatLiteralOrEmpty(s) ==
    \/ Unsigned(s) = <<>>
    \/ IsSpecialFloat(Unsigned(s))
    \/ IsDecimal(Unsigned(s))

\* whether float(s) returns rather than raising ValueError
IsFloatLiteral(s) ==
    \/ IsSpecialFloat(Unsigned(s))
    \/ IsDecimal(Unsigned(s))

RECURSIVE Reduced(_, _)
Reduced(num, den) ==
    IF den > 1 /\ num % 10 = 0 THEN Reduced(num \div 10, den \div 10)
    ELSE [num |-> num, den |-> den]

\* float(s) for a literal: the number as a reduced decimal fraction
ParseFloat(s) ==
    LET cs == Unsigned(s)
    IN  IF IsSpecialFloat(cs)
        THEN [special |-> Str(Lower(cs)), negative |-> IsNegative(s)]
        ELSE LET digits == SelectSeq(cs, IsDigit)
                 points == {i \in 1..Len(cs) : cs[i] = "."}
                 scale  == IF points = {} THEN 0 ELSE Len(cs) - SetMin(points)
             IN  [value |-> Reduced(DigitsToNat(digits), Pow10(scale)),
                  negative |-> IsNegative(s)]

-----------------------------------------------------------------------------
(* The document: what extract_table returns on each page.                  *)

NoTableFound == [found |-> FALSE, rows |-> <<>>]
Table(rows) == [found |-> TRUE, rows |-> rows]

HeaderRow == <<"Code No.", "Name", "Element", "Tech. Value", "Criteria">>
RowF4 == <<"F4", "Ballerina", "", "0.1", "- Hold: 5 seconds\n- Arm Position: upper">>
RowSP3 == <<"SP3", "Spin", "", " 1.0", "Grip is: open\n- Grip: closed">>
RowS5 == <<"S5", "Deadlift", "", "0.5", "see glossary">>
RowST2 == <<"ST2", "Static", "", "x", "Hold: 2 seconds">>
RowX9 == <<"X9", "Other", "", "", "">>

\* the table of the ordinary pages of a document
BaseTables == {NoTableFound, Table(<<HeaderRow>>), Table(<<HeaderRow, RowS5>>)}

\* the table of the pages that differ
VariantTables == {
    NoTableFound,
    Table(<<HeaderRow>>),
    Table(<<HeaderRow, RowF4>>),
    Table(<<HeaderRow, RowF4, RowSP3>>),
    Table(<<RowF4, RowSP3>>),
    Table(<<HeaderRow, RowST2>>),
    Table(<<HeaderRow, RowF4, RowX9>>) }

RunPages == FIRST_FLEXIBILITY_PAGE..LAST_SPIN_SPIN_PAGE

\* where the differing pages start: around the page before the range, the
\* first pages of the sections and the last page of the range
VariantStarts ==
    {s + d : s \in {FIRST_PAGE_INDEX, FIRST_STRENGTH_PAGE, FIRST_SPIN_STATIC_PAGE,
                    FIRST_SPIN_SPIN_PAGE, LAST_SPIN_SPIN_PAGE},
             d \in 0..MaxVariantOffset} \cap 1..DocPages

Documents ==
    {[base |-> b, first |-> 0, count |-> 0, variant |-> b] : b \in BaseTables}
        \cup [base : BaseTables, first : VariantStarts,
              count : 1..MaxVariantPages, variant : VariantTables]

\* cropped.extract_table(...) on the page at 1-based position
TableOn(doc, position) ==
    IF doc.first <= position /\ position < doc.first + doc.count
    THEN doc.variant
    ELSE doc.base

\* pdf.pages
Pages(doc) == [i \in 1..DocPages |-> [position |-> i, table |-> TableOn(doc, i)]]

\* list[start:stop] for 0 <= start, stop
PySlice(seq, start, stop) ==
    LET n    == Len(seq)
        from == IF start < n THEN start ELSE n
        to   == IF stop < n THEN stop ELSE n
    IN  SubSeq(seq, from + 1, to)

\* line 119: a variant starting the slice one page late, and the code's
PagesToVisitFromFirstPage(doc) == PySlice(Pages(doc), FIRST_PAGE, LAST_PAGE_INDEX)

PagesToVisit(doc) == PySlice(Pages(doc), FIRST_PAGE_INDEX, LAST_PAGE_INDEX)

\* enumerate(..., FIRST_PAGE): the number bound to the i-th page (i from 0)
PageNumberAt(i) == FIRST_PAGE + i

-----------------------------------------------------------------------------
(* Lines 144-164: the data frame of one page.                              *)

\* table[1:] keeping every row, and the code's
DataRowsWithHeader(table) == table

DataRows(table) == Tail(table)

\* one row of the frame; index is the RangeIndex label of DataFrame(table[1:])
Record(row, index, page_number) ==
    [index          |-> index,
     code           |-> row[1],
     name           |-> row[2],
     technicalValue |-> row[4],
     criteria       |-> parse_criteria(row[5]),
     page_number    |-> page_number,
     image          |-> "/images/" \o row[1] \o ".jpg",
     category       |-> get_category(row[1])]

PageFrame(table, page_number) ==
    LET rows == DataRows(table)
    IN  [i \in 1..Len(rows) |-> Record(rows[i], i - 1, page_number)]

\* line 202, prepending instead, and the code's
AppendFrameInFront(frames, df) == <<df>> \o frames

AppendFrame(frames, df) == Append(frames, df)

\* line 204: pd.concat(dfs) of a non-empty list
RECURSIVE Concat(_)
Concat(frames) ==
    IF frames = <<>> THEN <<>> ELSE Head(frames) \o Concat(Tail(frames))

\* line 206: whether astype raises, and the frame it returns otherwise
AstypeRaises(df) == \E i \in 1..Len(df) : ~IsFloatLiteral(df[i].technicalValue)

Astype(df) ==
    [i \in 1..Len(df) |->
        [df[i] EXCEPT !.technicalValue = ParseFloat(df[i].technicalValue)]]

\* line 208: orient="records" writes the columns of each row, not its index
JsonRecord(r) ==
    [code           |-> r.code,
     name           |-> r.name,
     technicalValue |-> r.technicalValue,
     criteria       |-> r.criteria,
     page_number    |-> r.page_number,
     image          |-> r.image,
     category       |-> r.category]

ToJson(df) == [i \in 1..Len(df) |-> JsonRecord(df[i])]

NotWritten == [written |-> FALSE, records |-> <<>>]

-----------------------------------------------------------------------------
(* The run (lines 112-208).                                                *)

NoCall == [fn |-> "none", arg |-> "none"]

FnIdle ==
    /\ fn_call = NoCall
    /\ fn_pc = "idle"
    /\ fn_ret = "none"

Init ==
    /\ pdf \in Documents
    /\ pc = "loop"
    /\ page_index = 0
    /\ visited = <<>>
    /\ dfs = <<>>
    /\ out = NotWritten
    /\ FnIdle

\* lines 118-128: the loop binds the next page of the slice and its number,
\* and looks up the page's geometry.  PAGES_TO_DEBUG (line 111) is empty, so
\* the debug branch of lines 131-136 is never taken.
InLoop == pc = "loop" /\ page_index < Len(PagesToVisit(pdf))

NextPage == PagesToVisit(pdf)[page_index + 1]

Visit(page, page_number) ==
    /\ page_index' = page_index + 1
    /\ visited' = Append(visited, [page_number |-> page_number,
                                   position    |-> page.position,
                                   crop        |-> get_crop_boundaries(page_number),
                                   lines       |-> get_vertical_lines(page_number),
                                   found       |-> page.table.found])

\* lines 118-142: extract_table finds no table
PageWithoutTable ==
    /\ InLoop
    /\ LET page        == NextPage
           page_number == PageNumberAt(page_index)
       IN  /\ ~page.table.found
           /\ Visit(page, page_number)
    /\ UNCHANGED <<pdf, pc, dfs, out, fnVars>>

\* lines 118-138 and 144-202: extract_table returns a table
PageWithTable ==
    /\ InLoop
    /\ LET page        == NextPage
           page_number == PageNumberAt(page_index)
       IN  /\ page.table.found
           /\ Visit(page, page_number)
           /\ dfs' = AppendFrame(dfs, PageFrame(page.table.rows, page_number))
    /\ UNCHANGED <<pdf, pc, out, fnVars>>

LoopDone == pc = "loop" /\ page_index = Len(PagesToVisit(pdf))

\* line 204 on an empty list: ValueError, No objects to concatenate
ConcatRaisesValueError ==
    /\ LoopDone
    /\ dfs = <<>>
    /\ pc' = "concat raised"
    /\ UNCHANGED <<pdf, page_index, visited, dfs, out, fnVars>>

\* lines 204-206: ValueError, could not convert string to float
AstypeRaisesValueError ==
    /\ LoopDone
    /\ dfs # <<>>
    /\ AstypeRaises(Concat(dfs))
    /\ pc' = "astype raised"
    /\ UNCHANGED <<pdf, page_index, visited, dfs, out, fnVars>>

\* lines 204-208
Export ==
    /\ LoopDone
    /\ dfs # <<>>
    /\ ~AstypeRaises(Concat(dfs))
    /\ out' = [written |-> TRUE, records |-> ToJson(Astype(Concat(dfs)))]
    /\ pc' = "done"
    /\ UNCHANGED <<pdf, page_index, visited, dfs, fnVars>>

Next ==
    \/ PageWithoutTable
    \/ PageWithTable
    \/ ConcatRaisesValueError
    \/ AstypeRaisesValueError
    \/ Export

Spec == Init /\ [][Next]_vars

-----------------------------------------------------------------------------
(* Inputs of the function calls.                                           *)

PageNumbers == 1..MaxPage

CodeAlphabet == {"S", "P", "T", "F", "X", "s", "4"}

RECURSIVE CodesOfLen(_)
CodesOfLen(n) ==
    IF n = 0 THEN {""}
    ELSE {c \o a : c \in CodesOfLen(n - 1), a \in CodeAlphabet}

Codes == UNION {CodesOfLen(n) : n \in 0..MaxCodeLen}

\* key spellings: every alias of bad_columns, every canonical key, one other
KeyTexts == {
    "Grip/Arm position", "arm/position grip", "Arm position / grip",
    "Arm position/grip",
    "Angle of the split", "- Angle of split", "Angle of split",
    "- Body position", "Body position",
    "Grip is", "Grip",
    "-5 Hold" }

ValueTexts == {" 5 seconds", "a:b "}

BulletTexts == {k \o ":" \o v : k \in KeyTexts, v \in ValueTexts} \cup {"see glossary"}

\* what precedes the first bullet
LeadTexts == {"", "- ", "- - ", "\n -"}

RECURSIVE BulletLists(_)
BulletLists(n) ==
    IF n = 1 THEN BulletTexts
    ELSE {t \o "\n- " \o b : t \in BulletLists(n - 1), b \in BulletTexts}

CriteriaTexts ==
    {l \o t : l \in LeadTexts,
               t \in UNION {BulletLists(n) : n \in 1..MaxBullets}}

Calls ==
    [fn : {"get_crop_boundaries", "get_vertical_lines"}, arg : PageNumbers]
        \cup [fn : {"get_category"}, arg : Codes]
        \cup [fn : {"parse_criteria"}, arg : CriteriaTexts]

-----------------------------------------------------------------------------
(* The function calls.                                                     *)

RunIdle ==
    /\ pdf = [base |-> NoTableFound, first |-> 0, count |-> 0, variant |-> NoTableFound]
    /\ pc = "idle"
    /\ page_index = 0
    /\ visited = <<>>
    /\ dfs = <<>>
    /\ out = NotWritten

InitFn ==
    /\ fn_call \in Calls
    /\ fn_pc = "call"
    /\ fn_ret = "none"
    /\ RunIdle

Return(value) ==
    /\ fn_ret' = value
    /\ fn_pc' = "return"
    /\ UNCHANGED <<fn_call, runVars>>

CallGetCropBoundaries ==
    /\ fn_pc = "call"
    /\ fn_call.fn = "get_crop_boundaries"
    /\ Return(get_crop_boundaries(fn_call.arg))

CallGetVerticalLines ==
    /\ fn_pc = "call"
    /\ fn_call.fn = "get_vertical_lines"
    /\ Return(get_vertical_lines(fn_call.arg))

CallGetCategory ==
    /\ fn_pc = "call"
    /\ fn_call.fn = "get_category"
    /\ Return(get_category(fn_call.arg))

CallParseCriteria ==
    /\ fn_pc = "call"
    /\ fn_call.fn = "parse_criteria"
    /\ Return(parse_criteria(fn_call.arg))

NextFn ==
    \/ CallGetCropBoundaries
    \/ CallGetVerticalLines
    \/ CallGetCategory
    \/ CallParseCriteria

SpecFn == InitFn /\ [][NextFn]_vars

Returned(fn) == fn_pc = "return" /\ fn_call.fn = fn

-----------------------------------------------------------------------------
(* Properties of the function calls (checked under SpecFn).                *)

\* what the bullets of a text carry: per fragment, whether it has a ":",
\* its canonicalized key and its trimmed value
Items(text) ==
    LET bullets == Bullets(text)
    IN  [i \in 1..Len(bullets) |->
            IF ":" \in {bullets[i][j] : j \in 1..Len(bullets[i])}
            THEN LET kv == SplitOnce(bullets[i], <<":">>)
                 IN  [keyed |-> TRUE,
                      key   |-> CanonicalKey(kv[1]),
                      value |-> Str(StripChars(kv[2], Whitespace))]
            ELSE [keyed |-> FALSE, key |-> "", value |-> ""]]

KeyedBullets(items, key) ==
    {i \in 1..Len(items) : items[i].keyed /\ items[i].key = key}

KeyedValues(items, key) == {items[i].value : i \in KeyedBullets(items, key)}

\* the value of the last bullet carrying the key
LastValue(items, key) == items[SetMax(KeyedBullets(items, key))].value

\* C1 as claimed: for every (alias, canonical) pair, when bullets with both
\* keys are present the result maps the canonical key to a canonically-keyed
\* bullet's value; when the alias-keyed bullet is present and the canonical
\* one is not, the result maps the canonical key to the alias bullet's value.
C1_AliasFillsWheneverCanonicalAbsent ==
    Returned("parse_criteria") =>
        LET items == Items(fn_call.arg)
        IN  \A i \in 1..Len(bad_columns) :
                LET bad  == bad_columns[i][1]
                    good == bad_columns[i][2]
                IN  /\ (KeyedBullets(items, bad) # {} /\ KeyedBullets(items, good) # {})
                           => /\ good \in DOMAIN fn_ret
                              /\ fn_ret[good] \in KeyedValues(items, good)
                    /\ (KeyedBullets(items, bad) # {} /\ KeyedBullets(items, good) = {})
                           => /\ good \in DOMAIN fn_ret
                              /\ fn_ret[good] \in KeyedValues(items, bad)

\* C1 amended: for every (alias, canonical) pair, when bullets with both keys
\* are present the result maps the canonical key to the value of the (last)
\* canonically-keyed bullet, whichever bullet comes first; when the
\* alias-keyed bullet is present, the canonical one is not, and no alias of
\* the same canonical key listed earlier in the alias table is present, the
\* result maps the canonical key to the (last) alias bullet's value.
C1_CanonicalWinsFirstAliasFills ==
    Returned("parse_criteria") =>
        LET items == Items(fn_call.arg)
        IN  \A i \in 1..Len(bad_columns) :
                LET bad  == bad_columns[i][1]
                    good == bad_columns[i][2]
                    earlier == {j \in 1..(i - 1) :
                                   /\ bad_columns[j][2] = good
                                   /\ KeyedBullets(items, bad_columns[j][1]) # {}}
                IN  KeyedBullets(items, bad) # {} =>
                        /\ KeyedBullets(items, good) # {}
                               => /\ good \in DOMAIN fn_ret
                                  /\ fn_ret[good] = LastValue(items, good)
                        /\ (KeyedBullets(items, good) = {} /\ earlier = {})
                               => /\ good \in DOMAIN fn_ret
                                  /\ fn_ret[good] = LastValue(items, bad)

\* an alias bullet precedes a canonical bullet of a different value, and the
\* canonical value is the one returned
C1_Witness ==
    /\ Returned("parse_criteria")
    /\ LET items == Items(fn_call.arg)
       IN  \E i \in 1..Len(bad_columns) :
               LET bad  == bad_columns[i][1]
                   good == bad_columns[i][2]
               IN  /\ KeyedBullets(items, bad) # {}
                   /\ KeyedBullets(items, good) # {}
                   /\ SetMin(KeyedBullets(items, bad)) < SetMin(KeyedBullets(items, good))
                   /\ KeyedValues(items, bad) \cap KeyedValues(items, good) = {}
                   /\ fn_ret[good] = LastValue(items, good)

\* C2: get_category is total and order-sensitive: "SP.." is spin, "ST.." is
\* static, any other "S.." is strength, "F.." is flexibility, everything
\* else is unknown; no "SP.." or "ST.." code is strength.
C2_CategoryByPrefix ==
    Returned("get_category") =>
        LET c  == Chars(fn_call.arg)
            c1 == IF Len(c) >= 1 THEN c[1] ELSE ""
            c2 == IF Len(c) >= 2 THEN c[2] ELSE ""
        IN  /\ fn_ret \in {"spin", "static", "strength", "flexibility", "unknown"}
            /\ (c1 = "S" /\ c2 = "P") => fn_ret = "spin"
            /\ (c1 = "S" /\ c2 = "T") => fn_ret = "static"
            /\ (c1 = "S" /\ c2 \notin {"P", "T"}) => fn_ret = "strength"
            /\ c1 = "F" => fn_ret = "flexibility"
            /\ c1 \notin {"S", "F"} => fn_ret = "unknown"
            /\ (c1 = "S" /\ c2 \in {"P", "T"}) => fn_ret # "strength"

C2_Witness ==
    /\ Returned("get_category")
    /\ fn_call.arg = "SP4"
    /\ fn_ret = "spin"

SectionStartPages ==
    {FIRST_FLEXIBILITY_PAGE, FIRST_STRENGTH_PAGE,
     FIRST_SPIN_STATIC_PAGE, FIRST_SPIN_SPIN_PAGE}

\* C7: get_crop_boundaries returns (35, 45, 565, 775) on every page that is
\* not a section-start page; on the four section-start pages, and only
\* there, top is larger than 45 and left, right, bottom keep their defaults.
C7_CropDefaultExceptSectionStarts ==
    Returned("get_crop_boundaries") =>
        /\ fn_call.arg \notin SectionStartPages
               => fn_ret = Boundaries(35, 45, 565, 775)
        /\ fn_call.arg \in SectionStartPages
               => /\ fn_ret.top > 45
                  /\ [fn_ret EXCEPT !.top = 45] = Boundaries(35, 45, 565, 775)

C7_Witness ==
    /\ Returned("get_crop_boundaries")
    /\ fn_call.arg = FIRST_STRENGTH_PAGE
    /\ fn_ret.top = 75

VerticalLineOverridePages == {29, 30, 31, 32, 33, 69, 70, 83}

\* C8 as claimed: get_vertical_lines returns VERTICAL_LINES on every page
\* outside the override set, and a sequence other than the default inside it.
C8_DefaultIsVerticalLines ==
    Returned("get_vertical_lines") =>
        /\ fn_call.arg \notin VerticalLineOverridePages => fn_ret = VERTICAL_LINES
        /\ fn_call.arg \in VerticalLineOverridePages => fn_ret # VERTICAL_LINES

\* the first fragment as C9 describes it: one leading "- " removed, if any
OneMarkerStripped(text) ==
    LET first == Split(StripChars(Chars(text), Whitespace), Chars("\n- "))[1]
    IN  IF StartsWith(first, Chars("- ")) THEN SubSeq(first, 3, Len(first))
        ELSE first

AliasTarget(key) ==
    IF \E i \in 1..Len(bad_columns) : bad_columns[i][1] = key
    THEN bad_columns[CHOOSE i \in 1..Len(bad_columns) : bad_columns[i][1] = key][2]
    ELSE key

\* C9 as claimed: only one leading "- " is stripped from the first fragment,
\* every other character is kept, so the first bullet's key is the
\* canonicalized text between that marker and the first ":" (and it, or the
\* canonical key it is an alias of, is a key of the result).
C9_OnlyOneMarkerStripped ==
    Returned("parse_criteria") =>
        LET first == OneMarkerStripped(fn_call.arg)
        IN  /\ Bullets(fn_call.arg)[1] = first
            /\ ":" \in {first[j] : j \in 1..Len(first)}
                   => AliasTarget(CanonicalKey(SplitOnce(first, <<":">>)[1]))
                          \in DOMAIN fn_ret

-----------------------------------------------------------------------------
(* Properties of the run (checked under Spec).                             *)

IsFound(visit) == visit.found

\* the visits that found a table, in loop order
FoundVisits == SelectSeq(visited, IsFound)

\* the rows extract_table returned for a visit
SourceRows(visit) == TableOn(pdf, visit.position).rows

MalformedValues == {"x", ""}

Raised == {"concat raised", "astype raised"}

\* C3 as claimed: whatever pages report no table (all of them included),
\* each contributes no frame, the loop goes on to the next page, and the
\* run is not aborted: it can only fail on a malformed technical value.
C3_NoTablePagesNeverAbort ==
    /\ Len(visited) = page_index
    /\ Len(dfs) = Len(FoundVisits)
    /\ pc \in Raised =>
           \E i \in 1..Len(Concat(dfs)) :
               Concat(dfs)[i].technicalValue \in MalformedValues

\* the numbers the well-formed technical values of the documents denote
ExpectedNumber(s) ==
    CASE s = "0.1"  -> [value |-> [num |-> 1, den |-> 10], negative |-> FALSE]
      [] s = " 1.0" -> [value |-> [num |-> 1, den |-> 1], negative |-> FALSE]
      [] s = "0.5"  -> [value |-> [num |-> 5, den |-> 10], negative |-> FALSE]

\* C4: a malformed technicalValue anywhere in the accumulated batch makes the
\* run fail at the coercion and nothing is exported; an export holds every
\* record of the batch, in order, each with the number its string denotes.
C4_MalformedValueBlocksExport ==
    LET batch == Concat(dfs)
        malformed == \E i \in 1..Len(batch) :
                         batch[i].technicalValue \in MalformedValues
    IN  /\ (pc # "loop" /\ malformed) => (pc = "astype raised" /\ ~out.written)
        /\ out.written =>
               /\ ~malformed
               /\ Len(out.records) = Len(batch)
               /\ \A i \in 1..Len(batch) :
                      /\ out.records[i].code = batch[i].code
                      /\ out.records[i].technicalValue
                             = ExpectedNumber(batch[i].technicalValue)

C4_Witness ==
    /\ pc = "astype raised"
    /\ ~out.written
    /\ \E i \in 1..Len(Concat(dfs)) :
           /\ Concat(dfs)[i].technicalValue = ""
           /\ i > 1
           /\ Concat(dfs)[i - 1].technicalValue = "0.1"

\* (page, row) of a record precedes that of another
Precedes(r1, r2) ==
    \/ r1.page_number < r2.page_number
    \/ r1.page_number = r2.page_number /\ r1.index < r2.index

\* every record is the row of its page at its index, and consecutive records
\* (hence, the order being transitive, any two) are in (page, row) order
C5_Ordered ==
    LET batch == Concat(dfs)
    IN  /\ \A i \in 1..Len(batch) :
               LET rows == TableOn(pdf, batch[i].page_number).rows
               IN  /\ batch[i].index + 2 <= Len(rows)
                   /\ batch[i].code = rows[batch[i].index + 2][1]
                   /\ batch[i].name = rows[batch[i].index + 2][2]
        /\ \A i \in 1..(Len(batch) - 1) : Precedes(batch[i], batch[i + 1])
        /\ out.written =>
               /\ Len(out.records) = Len(batch)
               /\ \A i \in 1..Len(batch) :
                      /\ out.records[i].code = batch[i].code
                      /\ out.records[i].page_number = batch[i].page_number

\* the frames accumulated so far stay as they are, in place
C5_AppendOnly ==
    /\ Len(dfs') >= Len(dfs)
    /\ SubSeq(dfs', 1, Len(dfs)) = dfs

\* C5: the catalogue is in (page ascending, row ascending) order, rows of a
\* page in source order, and accumulation only appends.
C5_PageThenRowOrder == [](C5_Ordered) /\ [][C5_AppendOnly]_vars

C5_Witness ==
    /\ out.written
    /\ \E i \in 1..(Len(out.records) - 2) :
           /\ out.records[i].page_number < out.records[i + 1].page_number
           /\ out.records[i + 1].page_number = out.records[i + 2].page_number
           /\ out.records[i + 1].code = "F4"
           /\ out.records[i + 2].code = "SP3"

\* C6: every page whose table is found adds one frame holding one record per
\* returned row but the first, which is dropped whatever it holds.
C6_RecordsAreRowsMinusHeader ==
    /\ Len(dfs) = Len(FoundVisits)
    /\ \A k \in 1..Len(dfs) :
           LET rows == SourceRows(FoundVisits[k])
           IN  /\ Len(dfs[k]) = Len(rows) - 1
               /\ \A i \in 1..Len(dfs[k]) :
                      /\ dfs[k][i].code = rows[i + 1][1]
                      /\ dfs[k][i].technicalValue = rows[i + 1][4]

\* a table whose first row is a data row: that row is dropped all the same
C6_Witness ==
    \E k \in 1..Len(dfs) :
        /\ k <= Len(FoundVisits)
        /\ SourceRows(FoundVisits[k]) = <<RowF4, RowSP3>>
        /\ Len(dfs[k]) = 1
        /\ dfs[k][1].code = "SP3"

\* C10: the loop binds the numbers 26..100 in increasing order, once each, to
\* the pages at those 1-based positions; geometry is looked up for, and the
\* records are stamped with, the position of the page they come from.
C10_PageNumberIsPosition ==
    /\ \A k \in 1..Len(visited) :
           /\ visited[k].page_number = FIRST_FLEXIBILITY_PAGE + k - 1
           /\ visited[k].page_number <= LAST_SPIN_SPIN_PAGE
           /\ visited[k].position = visited[k].page_number
           /\ visited[k].crop = get_crop_boundaries(visited[k].position)
           /\ visited[k].lines = get_vertical_lines(visited[k].position)
    /\ pc # "loop" => Len(visited) = LAST_SPIN_SPIN_PAGE - FIRST_FLEXIBILITY_PAGE + 1
    /\ \A k \in 1..Len(dfs) :
           /\ k <= Len(FoundVisits)
           /\ \A i \in 1..Len(dfs[k]) :
                  dfs[k][i].page_number = FoundVisits[k].position

C10_Witness ==
    /\ pc = "done"
    /\ visited[Len(visited)].position = LAST_SPIN_SPIN_PAGE
    /\ \E i \in 1..Len(out.records) :
           /\ out.records[i].page_number = LAST_SPIN_SPIN_PAGE
           /\ out.records[i].code = "SP3"

====
